---- MODULE Spec2Model ----
(***************************************************************************)
(* Model of server/core/incremental_summary.py (IncrementalSummaryManager) *)
(* together with the genai_session field of server/core/session.py.        *)
(*                                                                         *)
(* Text is a sequence of one-character strings, so that "\n".join() and    *)
(* str.strip() are computed, not assumed.  Each caller of maybe_update is  *)
(* a coroutine on one asyncio event loop that makes one call: code between *)
(* two awaits runs as one step.  The awaits that suspend are the wait for  *)
(* the asyncio.Lock, asyncio.to_thread(client.responses.generate) and      *)
(* session.send.                                                           *)
(***************************************************************************)
EXTENDS Integers, Sequences, FiniteSets, TLC

\* ---------------------------------------------------------------- bounds
NumCallers == 3
MaxTime == 4
MaxBuf == 2

\* ------------------------------------------------------ program constants
INCREMENTAL_SUMMARY_INTERVAL_SEC == 2

Callers == 1..NumCallers

INCREMENTAL_SUMMARY_PROMPT == <<"PROMPT">>
RefineHeader == <<"\n", "\n", "Existing summary to refine (merge and compress further):", "\n">>
ChunkHeader == <<"\n", "\n", "New transcript chunk to incorporate:", "\n">>
Marker == <<"[Running summary updated]">>
QuestionsPrompt == <<"Using the following compact summary ... Summary:", "\n">>
summary_part_id == <<"running_summary">>

\* texts handed to add_transcript, and texts the generation endpoint returns
Texts == { <<>>, <<"a">>, <<" ", "b">> }
RespTexts == { <<" ">>, <<"s">>, <<"t", " ">> }
Responses ==
    { [kind |-> "raise", text |-> <<>>], [kind |-> "none", text |-> <<>>] }
    \cup { [kind |-> "text", text |-> t] : t \in RespTexts }

\* ------------------------------------------------------------ str methods
Whitespace == {" ", "\n"}

RECURSIVE LStrip(_)
LStrip(s) ==
    IF s # <<>> /\ Head(s) \in Whitespace THEN LStrip(Tail(s)) ELSE s

RECURSIVE RStrip(_)
RStrip(s) ==
    IF s # <<>> /\ s[Len(s)] \in Whitespace
    THEN RStrip(SubSeq(s, 1, Len(s) - 1)) ELSE s

Strip(s) == RStrip(LStrip(s))

RECURSIVE Join(_)
Join(frags) ==
    IF frags = <<>> THEN <<>>
    ELSE IF Len(frags) = 1 THEN frags[1]
    ELSE frags[1] \o <<"\n">> \o Join(Tail(frags))

\* ------------------------------------------------- pieces of the handlers
\* mutant: the fragment is put in front of the buffer
AddTranscriptResult_Prepend(buf, text) ==
    IF text = <<>> THEN buf ELSE <<text>> \o buf

\* mutant: the test for empty text is missing
AddTranscriptResult_KeepsEmpty(buf, text) == Append(buf, text)

AddTranscriptResult(buf, text) ==
    IF text = <<>> THEN buf ELSE Append(buf, text)

\* the three early returns of maybe_update, in the order of the code
PreCheck(en, t, ts, buf) ==
    IF ~en THEN "disabled"
    ELSE IF t - ts < INCREMENTAL_SUMMARY_INTERVAL_SEC THEN "early"
    ELSE IF buf = <<>> THEN "empty"
    ELSE "pass"

\* mutant: no re-check under the lock
ReCheckPasses_Skipped(t, ts) == TRUE

ReCheckPasses(t, ts) == ~(t - ts < INCREMENTAL_SUMMARY_INTERVAL_SEC)

\* mutant: the lock is taken without looking at it
LockAvailable_Unchecked(lk, ws) == TRUE

\* asyncio.Lock.acquire() returns at once only when the lock is free and no
\* coroutine is queued for it
LockAvailable(lk, ws) == ~lk /\ ws = <<>>

\* mutant: acquire and release without try/finally
LockAfterCycle_HeldOnError(raised) == raised

\* "async with self._lock" releases the lock on return and on exception
LockAfterCycle(raised) == FALSE

\* mutant: the test for a missing live session is left out
HasSession_Always(session) == TRUE

\* session = self.session_state.genai_session; if not session: return
HasSession(session) == session

NewChunk(buf) == Strip(Join(buf))

\* mutant: the buffer is not cleared after the join
BufferAfterSnapshot_Keeps(buf) == buf

BufferAfterSnapshot(buf) == <<>>

UserText(summary, chunk) ==
    INCREMENTAL_SUMMARY_PROMPT
    \o (IF summary # <<>> THEN RefineHeader \o summary ELSE <<>>)
    \o ChunkHeader \o chunk

\* mutant: the generated text is not stripped
SummaryText_Unstripped(resp) ==
    IF resp.kind = "text" THEN resp.text ELSE <<>>

SummaryText(resp) ==
    IF resp.kind = "text" THEN Strip(resp.text) ELSE <<>>

\* mutant: the update asks the model for a response
CycleMessage_TurnComplete(summary) ==
    [client_content |->
        [turns |-> << [role |-> "user",
                       parts |-> << [text |-> Marker], [text |-> summary] >>] >>,
         turn_complete |-> TRUE]]

CycleMessage(summary) ==
    [client_content |->
        [turns |-> << [role |-> "user",
                       parts |-> << [text |-> Marker], [text |-> summary] >>] >>,
         turn_complete |-> FALSE]]

InjectSummaryMessage(summary) ==
    [client_content |->
        [turns |-> << [role |-> "user",
                       parts |-> << [text |-> QuestionsPrompt \o summary] >>] >>,
         turn_complete |-> TRUE]]

\* mutants: the timestamp is never set; it is set on every path
TsAfterCycle_Never(raised, ts, t) == ts
TsAfterCycle_Always(raised, ts, t) == t

\* self._last_update_ts = time.time() runs only when _update_summary_locked
\* returned; an exception skips it
TsAfterCycle(raised, ts, t) == IF raised THEN ts ELSE t

\* mutant: no try/except around the cycle
MaybeUpdateOutcome_Propagates(raised) == IF raised THEN "raised" ELSE "ran"

\* "except Exception" in maybe_update swallows whatever the cycle raised, so
\* a call that got as far as the cycle returns ("ran") either way
MaybeUpdateOutcome(raised) == "ran"

\* mutant: the assignment comes before the emptiness test
RunningSummaryAfter_Unconditional(old, text) == text

\* "if not summary_text: return" comes before the assignment
RunningSummaryAfter(old, text) == IF text = <<>> THEN old ELSE text

\* ------------------------------------------------------- session.py
SessionIds == {"s1", "s2"}

\* SessionState objects; the table never holds more than one per id, and
\* create_session makes its object before it drops the one it replaces
Refs == 1..(Cardinality(SessionIds) + 1)
None == 0

\* SessionState()
DefaultSessionState ==
    [ is_receiving_response |-> FALSE,
      interrupted |-> FALSE,
      current_tool_execution |-> None,
      current_audio_stream |-> None,
      genai_session |-> None,
      received_model_response |-> FALSE ]

\* mutant: an id already in the table keeps its entry
CreateSessionTable_KeepsExisting(tbl, id, session) ==
    IF id \in DOMAIN tbl THEN tbl
    ELSE [k \in DOMAIN tbl \cup {id} |-> IF k = id THEN session ELSE tbl[k]]

\* active_sessions[session_id] = session
CreateSessionTable(tbl, id, session) ==
    [k \in DOMAIN tbl \cup {id} |-> IF k = id THEN session ELSE tbl[k]]

\* active_sessions.get(session_id)
GetSession(tbl, id) == IF id \in DOMAIN tbl THEN tbl[id] ELSE None

\* mutant: del without the membership test raises KeyError
RemoveSession_Unguarded(tbl, id) ==
    IF id \in DOMAIN tbl
    THEN [table |-> [k \in DOMAIN tbl \ {id} |-> tbl[k]], raised |-> FALSE]
    ELSE [table |-> tbl, raised |-> TRUE]

\* if session_id in active_sessions: del active_sessions[session_id]
RemoveSession(tbl, id) ==
    IF id \in DOMAIN tbl
    THEN [table |-> [k \in DOMAIN tbl \ {id} |-> tbl[k]], raised |-> FALSE]
    ELSE [table |-> tbl, raised |-> FALSE]

\* ----------------------------------------------------- tool_handler.py
ToolNames == {"foo", "bar", "baz"}
Url == <<"https://fn">>

\* CLOUD_FUNCTIONS as config.py ships it (empty), and with entries of the
\* shape of its template, name: os.getenv(...), None when the variable is
\* unset
Tables ==
    { << >>,
      [n \in {"bar"} |-> Url],
      [n \in {"bar", "baz"} |-> IF n = "bar" THEN Url ELSE <<"None">>] }

\* the params of a call, as urlencode gives them
QueryStrings == { <<>>, <<"q=1">> }
Statuses == {200, 404, 500}
Messages == {"e"}
Bodies == { [data |-> <<"x">>], [error |-> <<"upstream">>] }

\* str() of a natural number
RECURSIVE Str(_)
Str(n) ==
    LET digit == <<"0", "1", "2", "3", "4", "5", "6", "7", "8", "9">>
    IN IF n < 10 THEN << digit[n + 1] >>
       ELSE Str(n \div 10) \o << digit[(n % 10) + 1] >>

\* mutant: the membership test is missing
ToolKnown_Always(table, name) == TRUE

\* tool_name in CLOUD_FUNCTIONS
ToolKnown(table, name) == name \in DOMAIN table

\* f"{base_url}?{query_string}" if params else base_url
FunctionUrl(base_url, query_string) ==
    IF query_string # <<>> THEN base_url \o <<"?">> \o query_string
    ELSE base_url

\* what execute_tool returns; parsed tells the value is response.json()
Returns(value) == [kind |-> "return", value |-> value, parsed |-> FALSE]
Parsed(body) == [kind |-> "return", value |-> body, parsed |-> TRUE]
UnknownTool(name) == Returns([error |-> <<"Unknown tool: ", name>>])
BadStatus(st) ==
    Returns([error |-> <<"Cloud function returned status ">> \o Str(st)])
InvalidJson(msg) ==
    Returns([error |-> <<"Invalid JSON response from cloud function: ", msg>>])
NetworkError(msg) ==
    Returns([error |-> <<"Failed to call cloud function: ", msg>>])
ToolFailed(msg) == Returns([error |-> <<"Tool execution failed: ", msg>>])

\* the two except clauses of execute_tool
Caught(exc) ==
    IF exc.type = "ClientError" THEN NetworkError(exc.msg)
    ELSE ToolFailed(exc.msg)

Exceptions ==
    { [type |-> t, msg |-> m] : t \in {"ClientError", "Exception"},
                                m \in Messages }

\* ------------------------------------------------------------------ state
VARIABLES
    now,                \* time.time()
    enabled,            \* INCREMENTAL_UPDATES_ENABLED
    genai_session,      \* session_state.genai_session is set
    _last_update_ts,
    running_summary,
    transcript_buffer,
    locked,             \* self._lock is held
    waiters,            \* coroutines queued on self._lock, FIFO
    pc,                 \* where each maybe_update caller is
    new_chunk,          \* local of the cycle a caller runs (while generating)
    response,           \* what the generation call gave the caller's cycle
    summary_text,       \* local of the cycle a caller runs (while sending)
    message,            \* input of the session.send in flight
    last_sent,          \* the message the live session received in the
                        \* latest step, NoMessage when it received none
    call_result,        \* how the maybe_update call that returned in the
                        \* latest step ended, "none" when none returned
    \* history
    cycles,             \* _update_summary_locked invocations
    started_now,        \* a call ran a cycle at once at the present time
    arrived,            \* non-empty fragments added since the last snapshot
    summary_before,     \* running_summary when a caller's cycle began
    last_outcome,       \* how the latest finished cycle ended
    last_return         \* time the latest cycle returned without raising

\* server/core/session.py
VARIABLES
    active_sessions,    \* the global table: session id -> SessionState object
    heap,               \* the fields of each SessionState object
    returned,           \* the latest call on the table and what it returned
    reg_flip,           \* flips with every call on the table
    turn,               \* where each session is in its turn
    tool_task,          \* what became of the latest tool task of each session
    \* history
    stored              \* per id, the object of the latest create_session
                        \* that no remove_session followed

sessionVars == << active_sessions, heap, returned, reg_flip, turn,
                  tool_task, stored >>

\* server/core/tool_handler.py
VARIABLES
    CLOUD_FUNCTIONS,    \* config: tool name -> URL (None when the URL is unset)
    tool_pc,            \* where the execute_tool call is
    tool_name,
    params,
    function_url,
    status,             \* response.status, None before a response
    tool_result,        \* how the latest execute_tool call ended
    requested           \* session.get was called in the latest call

toolVars == << CLOUD_FUNCTIONS, tool_pc, tool_name, params, function_url,
               status, tool_result, requested >>

outside == << sessionVars, toolVars >>

vars == << now, enabled, genai_session, _last_update_ts, running_summary,
           transcript_buffer, locked, waiters, pc, new_chunk, response,
           summary_text, message, last_sent, call_result, cycles,
           started_now, arrived, summary_before, last_outcome, last_return,
           outside >>

coordinator == << _last_update_ts, running_summary, transcript_buffer >>
locals == << new_chunk, response, summary_text, message, summary_before >>
live == << last_sent >>

NoMessage == [by |-> "nobody", input |-> <<>>]
NoResponse == [kind |-> "nothing", text |-> <<>>]

\* contents of the generation request a generating caller has in flight
user_text(p) == UserText(summary_before[p], new_chunk[p])

NoCall == [op |-> "none", id |-> "", value |-> None, raised |-> FALSE]

\* active_sessions = {}
InitSessions ==
    /\ active_sessions = << >>
    /\ heap = [r \in Refs |-> DefaultSessionState]
    /\ returned = NoCall
    /\ reg_flip = FALSE
    /\ turn = [r \in Refs |-> "Idle"]
    /\ tool_task = [r \in Refs |-> "none"]
    /\ stored = [id \in SessionIds |-> None]

NoResult == [kind |-> "none", value |-> [error |-> <<>>], parsed |-> FALSE]

InitTool(table) ==
    /\ CLOUD_FUNCTIONS = table
    /\ tool_pc = "idle"
    /\ tool_name = ""
    /\ params = <<>>
    /\ function_url = <<>>
    /\ status = None
    /\ tool_result = NoResult
    /\ requested = FALSE

InitCoordinator ==
    /\ now = INCREMENTAL_SUMMARY_INTERVAL_SEC
    /\ enabled \in BOOLEAN
    /\ genai_session \in BOOLEAN
    /\ _last_update_ts = 0
    /\ running_summary = <<>>
    /\ transcript_buffer = <<>>
    /\ locked = FALSE
    /\ waiters = <<>>
    /\ pc = [p \in Callers |-> "idle"]
    /\ new_chunk = [p \in Callers |-> <<>>]
    /\ response = [p \in Callers |-> NoResponse]
    /\ summary_text = [p \in Callers |-> <<>>]
    /\ message = [p \in Callers |-> <<>>]
    /\ last_sent = NoMessage
    /\ call_result = "none"
    /\ cycles = 0
    /\ started_now = FALSE
    /\ arrived = <<>>
    /\ summary_before = [p \in Callers |-> <<>>]
    /\ last_outcome = "none"
    /\ last_return = -1

\* CLOUD_FUNCTIONS is empty as config.py ships it
Init == InitCoordinator /\ InitSessions /\ InitTool(<< >>)

\* ---------------------------------------------------------------- actions
\* the step sends nothing to the live session
NothingSent == last_sent' = NoMessage

\* no maybe_update call returns in the step
NothingReturned == call_result' = "none"

Tick ==
    /\ now < MaxTime
    /\ now' = now + 1
    /\ started_now' = FALSE
    /\ NothingSent
    /\ NothingReturned
    /\ UNCHANGED << enabled, genai_session, coordinator, locked, waiters, pc,
                    locals, cycles, arrived, last_outcome, last_return >>
    /\ UNCHANGED outside

\* the owner of the SessionState attaches or drops the live session handle
SetGenaiSession ==
    /\ genai_session' = ~genai_session
    /\ NothingSent
    /\ NothingReturned
    /\ UNCHANGED << now, enabled, coordinator, locked, waiters, pc, locals,
                    cycles, started_now, arrived, last_outcome, last_return >>
    /\ UNCHANGED outside

add_transcript(text) ==
    /\ Len(transcript_buffer) < MaxBuf
    /\ transcript_buffer' = AddTranscriptResult(transcript_buffer, text)
    /\ arrived' = IF text = <<>> THEN arrived ELSE Append(arrived, text)
    /\ NothingSent
    /\ NothingReturned
    /\ UNCHANGED << now, enabled, genai_session, _last_update_ts,
                    running_summary, locked, waiters, pc, locals, cycles,
                    started_now, last_outcome, last_return >>
    /\ UNCHANGED outside

\* The end of "async with self._lock" in maybe_update, reached when
\* _update_summary_locked returned (raised = FALSE) or raised; the locals of
\* the finished call are gone.
EndCycle(p, kind, raised) ==
    /\ _last_update_ts' = TsAfterCycle(raised, _last_update_ts, now)
    /\ locked' = LockAfterCycle(raised)
    /\ pc' = [pc EXCEPT ![p] = "done"]
    /\ new_chunk' = [new_chunk EXCEPT ![p] = <<>>]
    /\ response' = [response EXCEPT ![p] = NoResponse]
    /\ summary_text' = [summary_text EXCEPT ![p] = <<>>]
    /\ message' = [message EXCEPT ![p] = <<>>]
    /\ summary_before' = [summary_before EXCEPT ![p] = <<>>]
    /\ call_result' = MaybeUpdateOutcome(raised)
    /\ last_outcome' = kind
    /\ last_return' = IF kind = "send_failed" THEN last_return ELSE now

\* maybe_update from the re-check under the lock up to the first await that
\* suspends
UnderLock(p) ==
    IF ~ReCheckPasses(now, _last_update_ts)
    THEN /\ locked' = FALSE
         /\ pc' = [pc EXCEPT ![p] = "done"]
         /\ call_result' = "lost"
         /\ UNCHANGED << coordinator, locals, cycles, arrived, last_outcome,
                         last_return >>
    ELSE /\ cycles' = cycles + 1
         /\ UNCHANGED << running_summary >>
         /\ IF ~HasSession(genai_session)
            THEN /\ EndCycle(p, "no_session", FALSE)
                 /\ UNCHANGED << transcript_buffer, arrived >>
            ELSE /\ transcript_buffer' = BufferAfterSnapshot(transcript_buffer)
                 /\ arrived' = <<>>
                 /\ \E init_ok \in BOOLEAN :
                      IF init_ok
                      THEN \* await asyncio.to_thread(...) suspends
                           /\ pc' = [pc EXCEPT ![p] = "gen"]
                           /\ locked' = TRUE
                           /\ new_chunk' = [new_chunk EXCEPT ![p] =
                                               NewChunk(transcript_buffer)]
                           /\ summary_before' = [summary_before EXCEPT ![p] =
                                                    running_summary]
                           /\ NothingReturned
                           /\ UNCHANGED << _last_update_ts, response,
                                           summary_text, message,
                                           last_outcome, last_return >>
                      ELSE \* api_config.initialize() raised: summary_text = ""
                           EndCycle(p, "gen_empty", FALSE)

\* One call of maybe_update per caller; the callers are numbered in the
\* order of their calls.
maybe_update(p) ==
    /\ pc[p] = "idle"
    /\ \A q \in Callers : q < p => pc[q] # "idle"
    /\ IF PreCheck(enabled, now, _last_update_ts, transcript_buffer) # "pass"
       THEN /\ pc' = [pc EXCEPT ![p] = "done"]
            /\ call_result' =
                  PreCheck(enabled, now, _last_update_ts, transcript_buffer)
            /\ UNCHANGED << coordinator, locked, waiters, locals, cycles,
                            started_now, arrived, last_outcome, last_return >>
       ELSE IF LockAvailable(locked, waiters)
       THEN /\ UnderLock(p)
            /\ started_now' = (started_now \/ cycles' # cycles)
            /\ UNCHANGED waiters
       ELSE /\ pc' = [pc EXCEPT ![p] = "waiting"]
            /\ waiters' = Append(waiters, p)
            /\ NothingReturned
            /\ UNCHANGED << coordinator, locked, locals, cycles, started_now,
                            arrived, last_outcome, last_return >>
    /\ NothingSent
    /\ UNCHANGED << now, enabled, genai_session >>
    /\ UNCHANGED outside

\* the lock was released and the event loop resumes the first queued caller
Acquire(p) ==
    /\ pc[p] = "waiting"
    /\ ~locked
    /\ waiters # <<>>
    /\ Head(waiters) = p
    /\ waiters' = Tail(waiters)
    /\ UnderLock(p)
    /\ NothingSent
    /\ UNCHANGED << now, enabled, genai_session, started_now >>
    /\ UNCHANGED outside

\* client.responses.generate comes back (or raises) in the worker thread
GenerateReturns(p, resp) ==
    /\ pc[p] = "gen"
    /\ IF SummaryText(resp) = <<>>
       THEN /\ EndCycle(p, "gen_empty", FALSE)
            /\ running_summary' = RunningSummaryAfter(running_summary, <<>>)
       ELSE /\ running_summary' =
                  RunningSummaryAfter(running_summary, SummaryText(resp))
            /\ response' = [response EXCEPT ![p] = resp]
            /\ summary_text' = [summary_text EXCEPT ![p] = SummaryText(resp)]
            /\ message' = [message EXCEPT ![p] = CycleMessage(SummaryText(resp))]
            /\ pc' = [pc EXCEPT ![p] = "send"]
            /\ new_chunk' = [new_chunk EXCEPT ![p] = <<>>]
            /\ summary_before' = [summary_before EXCEPT ![p] = <<>>]
            /\ NothingReturned
            /\ UNCHANGED << _last_update_ts, locked, last_outcome,
                            last_return >>
    /\ NothingSent
    /\ UNCHANGED << now, enabled, genai_session, transcript_buffer, waiters,
                    cycles, started_now, arrived >>
    /\ UNCHANGED outside

Deliver(by, input) == last_sent' = [by |-> by, input |-> input]

SendReturns(p) ==
    /\ pc[p] = "send"
    /\ Deliver("cycle", message[p])
    /\ EndCycle(p, "success", FALSE)
    /\ UNCHANGED << now, enabled, genai_session, running_summary,
                    transcript_buffer, waiters, cycles, started_now, arrived >>
    /\ UNCHANGED outside

\* session.send raises; the live session may or may not have got the message
SendRaises(p, delivered) ==
    /\ pc[p] = "send"
    /\ IF delivered THEN Deliver("cycle", message[p]) ELSE NothingSent
    /\ EndCycle(p, "send_failed", TRUE)
    /\ UNCHANGED << now, enabled, genai_session, running_summary,
                    transcript_buffer, waiters, cycles, started_now, arrived >>
    /\ UNCHANGED outside

\* its send is the last thing it does, so the call is one step
inject_summary_for_questions(delivered) ==
    /\ genai_session
    /\ running_summary # <<>>
    /\ IF delivered
       THEN Deliver("inject", InjectSummaryMessage(running_summary))
       ELSE NothingSent
    /\ NothingReturned
    /\ UNCHANGED << now, enabled, genai_session, coordinator, locked, waiters,
                    pc, locals, cycles, started_now, arrived,
                    last_outcome, last_return >>
    /\ UNCHANGED outside

Next ==
    \/ Tick
    \/ SetGenaiSession
    \/ \E text \in Texts : add_transcript(text)
    \/ \E p \in Callers : maybe_update(p)
    \/ \E p \in Callers : Acquire(p)
    \/ \E p \in Callers, resp \in Responses : GenerateReturns(p, resp)
    \/ \E p \in Callers : SendReturns(p)
    \/ \E p \in Callers, delivered \in BOOLEAN : SendRaises(p, delivered)
    \/ \E delivered \in BOOLEAN : inject_summary_for_questions(delivered)

Spec == Init /\ [][Next]_vars

\* The generation call and the send come back, and the event loop resumes a
\* caller whose turn for the lock has come.
\* At most one of the three is possible at a time: the first two need the
\* lock held by the caller, the third needs it free.
Resumes ==
    \E p \in Callers :
        \/ \E resp \in Responses : GenerateReturns(p, resp)
        \/ SendReturns(p)
        \/ \E delivered \in BOOLEAN : SendRaises(p, delivered)
        \/ Acquire(p)

Fairness == WF_vars(Resumes)

LiveSpec == Spec /\ Fairness

get_summary == running_summary

\* ------------------------------------------------- session.py: the table
coordinatorVars ==
    << now, enabled, genai_session, coordinator, locked, waiters, pc, locals,
       live, call_result, cycles, started_now, arrived, last_outcome,
       last_return >>

inside == << coordinatorVars, toolVars >>

Range(tbl) == { tbl[k] : k \in DOMAIN tbl }

\* the object SessionState() makes: one the table does not hold
Fresh(tbl) ==
    CHOOSE r \in Refs \ Range(tbl) : \A q \in Refs \ Range(tbl) : r <= q

\* An object is followed for as long as the table holds it.
Held(tbl, f, init) == [r \in Refs |-> IF r \in Range(tbl) THEN f[r] ELSE init]

create_session(id) ==
    LET session == Fresh(active_sessions)
        tbl == CreateSessionTable(active_sessions, id, session)
    IN /\ active_sessions' = tbl
       /\ heap' = Held(tbl, [heap EXCEPT ![session] = DefaultSessionState],
                       DefaultSessionState)
       /\ turn' = Held(tbl, [turn EXCEPT ![session] = "Idle"], "Idle")
       /\ tool_task' = Held(tbl, [tool_task EXCEPT ![session] = "none"], "none")
       /\ returned' = [op |-> "create", id |-> id, value |-> session,
                       raised |-> FALSE]
       /\ reg_flip' = ~reg_flip
       /\ stored' = [stored EXCEPT ![id] = session]
       /\ UNCHANGED inside

get_session(id) ==
    /\ returned' = [op |-> "get", id |-> id,
                    value |-> GetSession(active_sessions, id),
                    raised |-> FALSE]
    /\ reg_flip' = ~reg_flip
    /\ UNCHANGED << active_sessions, heap, turn, tool_task, stored, inside >>

remove_session(id) ==
    LET r == RemoveSession(active_sessions, id)
    IN /\ active_sessions' = r.table
       /\ heap' = Held(r.table, heap, DefaultSessionState)
       /\ turn' = Held(r.table, turn, "Idle")
       /\ tool_task' = Held(r.table, tool_task, "none")
       /\ returned' = [op |-> "remove", id |-> id, value |-> None,
                       raised |-> r.raised]
       /\ reg_flip' = ~reg_flip
       /\ stored' = [stored EXCEPT ![id] = None]
       /\ UNCHANGED inside

\* ------------------------------------ the turn of a session in the table
registry == << active_sessions, returned, reg_flip, stored >>

\* mutant: the task is cancelled and the handle is left in the field
InterruptedState_StaleHandle(st) == [st EXCEPT !.interrupted = TRUE]

\* the fields of a session after new user input pre-empted its response
InterruptedState(st) ==
    [st EXCEPT !.interrupted = TRUE,
               !.current_audio_stream = None,
               !.current_tool_execution = None]

\* user audio or text arrives while the session is idle
UserInput(r) ==
    /\ r \in Range(active_sessions)
    /\ turn[r] = "Idle"
    /\ turn' = [turn EXCEPT ![r] = "AwaitingResponse"]
    /\ heap' = [heap EXCEPT ![r].interrupted = FALSE,
                            ![r].received_model_response = FALSE]
    /\ UNCHANGED << registry, tool_task, inside >>

\* the first model output chunk of the turn arrives
ModelOutput(r) ==
    /\ r \in Range(active_sessions)
    /\ turn[r] = "AwaitingResponse"
    /\ turn' = [turn EXCEPT ![r] = "Streaming"]
    /\ heap' = [heap EXCEPT ![r].received_model_response = TRUE,
                            ![r].is_receiving_response = TRUE]
    /\ UNCHANGED << registry, tool_task, inside >>

\* a tool-call request arrives; the handle of its task is recorded
ToolCall(r) ==
    /\ r \in Range(active_sessions)
    /\ turn[r] \in {"AwaitingResponse", "Streaming"}
    /\ turn' = [turn EXCEPT ![r] = "ToolExecuting"]
    /\ tool_task' = [tool_task EXCEPT ![r] = "running"]
    /\ heap' = [heap EXCEPT ![r].current_tool_execution = r]
    /\ UNCHANGED << registry, inside >>

\* the tool result returns
ToolResult(r) ==
    /\ r \in Range(active_sessions)
    /\ turn[r] = "ToolExecuting"
    /\ tool_task[r] = "running"
    /\ turn' = [turn EXCEPT ![r] = IF heap[r].received_model_response
                                   THEN "Streaming" ELSE "AwaitingResponse"]
    /\ tool_task' = [tool_task EXCEPT ![r] = "done"]
    /\ heap' = [heap EXCEPT ![r].current_tool_execution = None]
    /\ UNCHANGED << registry, inside >>

\* new user input arrives while the session streams or runs a tool
Interrupt(r) ==
    /\ r \in Range(active_sessions)
    /\ turn[r] \in {"Streaming", "ToolExecuting"}
    /\ turn' = [turn EXCEPT ![r] = "AwaitingResponse"]
    /\ heap' = [heap EXCEPT ![r] = InterruptedState(heap[r])]
    /\ tool_task' = [tool_task EXCEPT ![r] =
                        IF heap[r].current_tool_execution # None
                        THEN "cancelled" ELSE tool_task[r]]
    /\ UNCHANGED << registry, inside >>

\* the service signals turn-complete and no tool call is pending
TurnComplete(r) ==
    /\ r \in Range(active_sessions)
    /\ turn[r] \in {"AwaitingResponse", "Streaming"}
    /\ turn' = [turn EXCEPT ![r] = "Idle"]
    /\ heap' = [heap EXCEPT ![r].is_receiving_response = FALSE]
    /\ UNCHANGED << registry, tool_task, inside >>

SessionNext ==
    \/ \E id \in SessionIds : create_session(id)
    \/ \E id \in SessionIds : get_session(id)
    \/ \E id \in SessionIds : remove_session(id)
    \/ \E r \in Refs : UserInput(r)
    \/ \E r \in Refs : ModelOutput(r)
    \/ \E r \in Refs : ToolCall(r)
    \/ \E r \in Refs : ToolResult(r)
    \/ \E r \in Refs : Interrupt(r)
    \/ \E r \in Refs : TurnComplete(r)

SessionSpec == Init /\ [][SessionNext]_vars

\* ------------------------------------------------------- tool_handler.py
apart == << coordinatorVars, sessionVars >>

ToolReturn(result) ==
    /\ tool_pc' = "done"
    /\ tool_result' = result

\* a request to an unset URL gets no response
Reachable(url) == Head(url) # "None"

\* execute_tool up to its first await
execute_tool(name, query_string) ==
    /\ tool_pc \in {"idle", "done"}
    /\ tool_name' = name
    /\ params' = query_string
    /\ status' = None
    /\ IF ~ToolKnown(CLOUD_FUNCTIONS, name)
       THEN /\ ToolReturn(UnknownTool(name))
            /\ function_url' = <<>>
            /\ requested' = FALSE
       ELSE IF name \notin DOMAIN CLOUD_FUNCTIONS
       THEN \* CLOUD_FUNCTIONS[tool_name] raises KeyError
            /\ ToolReturn(Caught([type |-> "Exception", msg |-> name]))
            /\ function_url' = <<>>
            /\ requested' = FALSE
       ELSE /\ function_url' = FunctionUrl(CLOUD_FUNCTIONS[name], query_string)
            /\ tool_pc' = "get"
            /\ tool_result' = NoResult
            /\ requested' = TRUE
    /\ UNCHANGED << CLOUD_FUNCTIONS, apart >>

\* session.get(function_url) gives the response
GetReturns(st) ==
    /\ tool_pc = "get"
    /\ Reachable(function_url)
    /\ status' = st
    /\ tool_pc' = "text"
    /\ UNCHANGED << CLOUD_FUNCTIONS, tool_name, params, function_url,
                    tool_result, requested, apart >>

GetRaises(exc) ==
    /\ tool_pc = "get"
    /\ ToolReturn(Caught(exc))
    /\ UNCHANGED << CLOUD_FUNCTIONS, tool_name, params, function_url, status,
                    requested, apart >>

\* await response.text() returns; the status test follows with no await
TextReturns ==
    /\ tool_pc = "text"
    /\ IF status # 200
       THEN ToolReturn(BadStatus(status))
       ELSE tool_pc' = "json" /\ UNCHANGED tool_result
    /\ UNCHANGED << CLOUD_FUNCTIONS, tool_name, params, function_url, status,
                    requested, apart >>

\* await response.text() raises: the body cannot be read or decoded
TextRaises(exc) ==
    /\ tool_pc = "text"
    /\ ToolReturn(Caught(exc))
    /\ UNCHANGED << CLOUD_FUNCTIONS, tool_name, params, function_url, status,
                    requested, apart >>

JsonReturns(body) ==
    /\ tool_pc = "json"
    /\ ToolReturn(Parsed(body))
    /\ UNCHANGED << CLOUD_FUNCTIONS, tool_name, params, function_url, status,
                    requested, apart >>

\* await response.json() raises: malformed body or wrong content type
JsonRaises(msg) ==
    /\ tool_pc = "json"
    /\ ToolReturn(InvalidJson(msg))
    /\ UNCHANGED << CLOUD_FUNCTIONS, tool_name, params, function_url, status,
                    requested, apart >>

ToolNext ==
    \/ \E name \in ToolNames, q \in QueryStrings : execute_tool(name, q)
    \/ \E st \in Statuses : GetReturns(st)
    \/ \E exc \in Exceptions : GetRaises(exc)
    \/ TextReturns
    \/ \E exc \in Exceptions : TextRaises(exc)
    \/ \E body \in Bodies : JsonReturns(body)
    \/ \E msg \in Messages : JsonRaises(msg)

ToolInit ==
    /\ InitCoordinator
    /\ InitSessions
    /\ \E table \in Tables : InitTool(table)

ToolSpec == ToolInit /\ [][ToolNext]_vars

\* ------------------------------------------------------- step predicates
InCycle(p) == pc[p] \in {"gen", "send"}

\* a caller that was queued on the lock is resumed
WaiterResumes(p) == pc[p] = "waiting" /\ pc'[p] # "waiting"

\* _update_summary_locked is entered
CycleStarts == cycles' = cycles + 1

\* the snapshot of a cycle that goes on to the generation call
Snapshots(p) == pc[p] # "gen" /\ pc'[p] = "gen"

\* a cycle ends in this step
SendSucceeds(p) == pc[p] = "send" /\ pc'[p] = "done" /\ last_outcome' = "success"
SendFails(p) == pc[p] = "send" /\ pc'[p] = "done" /\ last_outcome' = "send_failed"
GenerationEmpty(p) == pc[p] = "gen" /\ pc'[p] = "done"
\* api_config.initialize() raised: the cycle began and ended in one step
GenerationFailsAtOnce ==
    /\ CycleStarts
    /\ last_outcome' = "gen_empty"
    /\ \A q \in Callers : pc'[q] = "gen" => pc[q] = "gen"

Interval == INCREMENTAL_SUMMARY_INTERVAL_SEC

\* ------------------------------------------------------------------ C3
\* C3: in every reachable state at most one compaction cycle is in progress,
\* also while it is suspended in the generation call or in the send, and the
\* caller running it holds the lock.
C3_OneCycleAtATime ==
    /\ Cardinality({p \in Callers : InCycle(p)}) <= 1
    /\ (\E p \in Callers : InCycle(p)) => locked

C3_Witness ==
    \E p, q \in Callers :
        /\ pc[p] = "send"
        /\ pc[q] = "waiting"
        /\ transcript_buffer # <<>>

\* ------------------------------------------------------------------ C1
\* C1 (as stated): of maybe_update calls in flight together exactly one runs
\* a cycle; a caller that had to queue for the lock behind the running cycle
\* runs none and changes neither running_summary, transcript_buffer, the
\* timestamp nor what the live session received.
C1_Original ==
    [][\A p \in Callers :
          WaiterResumes(p) =>
              /\ ~CycleStarts
              /\ NothingSent
              /\ UNCHANGED coordinator]_vars

\* C1 (amended): a caller that queued for the lock loses, running no cycle
\* and changing nothing, when the latest cycle returned without raising less
\* than the interval before its re-check; when the latest cycle ended in a
\* send failure the timestamp was left alone and the queued caller runs a
\* second cycle.
C1_WaiterLosesUnlessSendFailed ==
    [][\A p \in Callers :
          WaiterResumes(p) =>
              IF last_outcome = "send_failed"
              THEN CycleStarts
              ELSE now - last_return < Interval =>
                      /\ ~CycleStarts
                      /\ call_result' = "lost"
                      /\ NothingSent
                      /\ UNCHANGED coordinator]_vars

C1_Witness ==
    /\ call_result = "lost"
    /\ last_outcome = "success"
    /\ now - last_return < Interval
    /\ transcript_buffer # <<>>
    /\ cycles = 1

\* ------------------------------------------------------------------ C2
\* a call runs a cycle without having to wait for the lock
CycleStartsAtOnce == started_now' /\ CycleStarts

\* C2 (as stated): of two maybe_update calls made at the same time, less
\* than the interval apart (and so of the calls of a sequence in which each
\* comes less than the interval after the one before), at most one triggers
\* a cycle, whatever the outcome of that cycle.
C2_Original ==
    [][CycleStartsAtOnce => ~started_now]_vars

\* C2 (amended): no cycle is triggered less than the interval after a cycle
\* that returned without raising (success, empty or failed generation,
\* missing live session); a cycle that ended in a send failure does not
\* hold back the next one.
C2_NoCycleWithinIntervalOfReturn ==
    [][CycleStarts => (last_return < 0 \/ now - last_return >= Interval)]_vars

C2_Witness ==
    /\ call_result = "early"
    /\ last_outcome = "gen_empty"
    /\ now - last_return < Interval
    /\ now > last_return
    /\ transcript_buffer # <<>>
    /\ cycles = 1

\* ------------------------------------------------------------------ C4
\* C4 (as stated): the new chunk of a snapshot is exactly the non-empty
\* fragments added since the snapshot before, joined in arrival order.
C4_Original ==
    [][\A p \in Callers : Snapshots(p) => new_chunk'[p] = Join(arrived)]_vars

\* C4 (amended): the new chunk of a snapshot is the non-empty fragments added
\* since the snapshot before, all of them, in arrival order, joined by
\* newlines, with the whitespace at the two ends of the joined text removed;
\* the snapshot empties the buffer.
C4_ChunkIsStrippedJoin ==
    [][\A p \in Callers :
          Snapshots(p) =>
              /\ new_chunk'[p] = Strip(Join(arrived))
              /\ transcript_buffer' = <<>>]_vars

C4_Witness ==
    \E p \in Callers :
        /\ pc[p] = "gen"
        /\ new_chunk[p] = <<"b", "\n", "a">>
        /\ cycles = 2

\* ------------------------------------------------------------------ C5
\* C5 (as stated): when a cycle completes successfully get_summary() is the
\* text the cycle generated and transcript_buffer is empty.
C5_Original ==
    [][\A p \in Callers :
          SendSucceeds(p) =>
              /\ get_summary' = summary_text[p]
              /\ transcript_buffer' = <<>>]_vars

\* C5 (amended): when a cycle completes successfully get_summary() is the
\* text the cycle generated, stripped, and transcript_buffer holds exactly
\* the fragments added after the cycle's snapshot (none of the snapshot).
C5_SummaryAndLateFragments ==
    [][\A p \in Callers :
          SendSucceeds(p) =>
              /\ get_summary' = Strip(response[p].text)
              /\ get_summary' # <<>>
              /\ transcript_buffer' = arrived']_vars

C5_Witness ==
    /\ last_outcome = "success"
    /\ call_result = "ran"
    /\ get_summary = <<"t">>
    /\ transcript_buffer = << <<"a">> >>
    /\ last_sent.by = "cycle"
    /\ cycles = 1
    /\ \A p \in Callers : pc[p] \in {"idle", "done"}

\* ------------------------------------------------------------------ C6
\* C6 (as stated): after a cycle whose generation fails or returns empty
\* text running_summary is what it was before the cycle, transcript_buffer
\* is empty and nothing was sent.
C6_Original ==
    [][/\ \A p \in Callers :
             GenerationEmpty(p) =>
                 /\ running_summary' = summary_before[p]
                 /\ transcript_buffer' = <<>>
                 /\ NothingSent
       /\ GenerationFailsAtOnce =>
             /\ running_summary' = running_summary
             /\ transcript_buffer' = <<>>
             /\ NothingSent]_vars

\* C6 (amended): after such a cycle running_summary is what it was before
\* the cycle, the snapshot is dropped for good (transcript_buffer holds only
\* the fragments added after it) and nothing was sent.
C6_FailedGenerationDropsSnapshot ==
    [][/\ \A p \in Callers :
             GenerationEmpty(p) =>
                 /\ running_summary' = summary_before[p]
                 /\ transcript_buffer' = arrived'
                 /\ NothingSent
       /\ GenerationFailsAtOnce =>
             /\ running_summary' = running_summary
             /\ transcript_buffer' = <<>>
             /\ NothingSent]_vars

C6_Witness ==
    /\ last_outcome = "gen_empty"
    /\ running_summary = <<"s">>
    /\ transcript_buffer = << <<"a">> >>
    /\ cycles = 2
    /\ \A p \in Callers : pc[p] = "done"

\* ------------------------------------------------------------------ C7
\* C7 (as stated): the timestamp changes only in the step that completes a
\* successful cycle.
C7_Original ==
    [][_last_update_ts' # _last_update_ts
          => \E p \in Callers : SendSucceeds(p)]_vars

\* C7 (amended): the timestamp is set whenever a cycle returns without
\* raising, also when it stopped early on a missing live session or on a
\* failed or empty generation; only a send failure leaves it alone.  In every
\* reachable state it is the time the latest cycle returned without raising.
C7_TimestampOfLastReturn ==
    _last_update_ts = IF last_return < 0 THEN 0 ELSE last_return

C7_Witness ==
    /\ last_outcome = "send_failed"
    /\ cycles = 2
    /\ _last_update_ts > 0
    /\ _last_update_ts < now

\* ------------------------------------------------------------------ C8
IdFields(rec, known) == { rec[k] : k \in DOMAIN rec \ known }

\* the identifiers a content update is addressed with, at any level
Addressing(input) ==
    LET cc == input.client_content
    IN IdFields(cc, {"turns", "turn_complete"})
       \cup UNION { IdFields(cc.turns[i], {"role", "parts"})
                    \cup UNION { IdFields(cc.turns[i].parts[j], {"text"})
                                 : j \in DOMAIN cc.turns[i].parts }
                    : i \in DOMAIN cc.turns }

\* C8: every content update a cycle sends is addressed with summary_part_id.
C8_Original ==
    last_sent.by = "cycle" => summary_part_id \in Addressing(last_sent.input)

C10_SendFailureIsNotFatal ==
    /\ [][\A p \in Callers :
             SendFails(p) =>
                 /\ call_result' = "ran"
                 /\ running_summary' = summary_text[p]
                 /\ running_summary' # <<>>
                 /\ ~locked'
                 /\ UNCHANGED _last_update_ts]_vars
    /\ [](last_outcome = "send_failed" =>
             /\ (\A p \in Callers : ~InCycle(p)) => ~locked
             /\ ReCheckPasses(now, _last_update_ts)
             /\ transcript_buffer # <<>> =>
                   PreCheck(enabled, now, _last_update_ts, transcript_buffer)
                      = "pass")

C10_Witness ==
    /\ last_outcome = "send_failed"
    /\ cycles = 2
    /\ \E p \in Callers : pc[p] = "gen"
    /\ running_summary # <<>>

\* ----------------------------------------------------------------- C11
\* C11: add_transcript with empty text changes nothing; with non-empty text
\* it appends exactly that fragment at the end of transcript_buffer and
\* leaves the earlier fragments, running_summary, the timestamp, the lock and
\* every caller of maybe_update alone; it never waits for the lock: it can
\* run in any state, also while a cycle holds the lock.
C11_AddTranscriptFrame ==
    /\ [][Len(transcript_buffer') > Len(transcript_buffer) =>
             /\ \E text \in Texts \ {<<>>} :
                   transcript_buffer' = Append(transcript_buffer, text)
             /\ NothingSent
             /\ UNCHANGED << _last_update_ts, running_summary, locked,
                             waiters, pc, locals >>]_vars
    /\ [](AddTranscriptResult(transcript_buffer, <<>>) = transcript_buffer)
    /\ [](Len(transcript_buffer) < MaxBuf =>
             \A text \in Texts : ENABLED add_transcript(text))

C11_Witness ==
    /\ locked
    /\ \E p \in Callers : pc[p] = "send"
    /\ transcript_buffer = << <<"a">> >>
    /\ arrived = transcript_buffer

\* ----------------------------------------------------------------- C12
\* a call on the table is made in this step
TableCall(op) == reg_flip' # reg_flip /\ returned'.op = op

\* C12: remove_session never raises; it deletes the entry of its id and no
\* other, leaves the table as it is when the id is not in it, and a second
\* call with the same id has the result of the first.
C12_RemoveIdempotent ==
    /\ [][TableCall("remove") =>
             /\ ~returned'.raised
             /\ DOMAIN active_sessions' = DOMAIN active_sessions \ {returned'.id}
             /\ \A k \in DOMAIN active_sessions' :
                   active_sessions'[k] = active_sessions[k]]_vars
    /\ [](\A id \in SessionIds :
             LET once == RemoveSession(active_sessions, id)
             IN /\ RemoveSession(once.table, id) = once
                /\ id \notin DOMAIN active_sessions
                      => once = [table |-> active_sessions, raised |-> FALSE])

C12_Witness ==
    /\ returned.op = "remove"
    /\ returned.id = "s1"
    /\ DOMAIN active_sessions = {"s2"}
    /\ heap[active_sessions["s2"]].interrupted

C14_UnknownToolNoNetwork ==
    /\ [][tool_name' \notin DOMAIN CLOUD_FUNCTIONS /\ tool_pc' # tool_pc =>
             /\ tool_pc' = "done"
             /\ tool_result' = UnknownTool(tool_name')
             /\ ~requested']_vars
    /\ [](tool_pc # "idle" /\ tool_name \notin DOMAIN CLOUD_FUNCTIONS =>
             /\ tool_pc = "done"
             /\ tool_result.kind = "return"
             /\ tool_result.value = [error |-> <<"Unknown tool: ", tool_name>>]
             /\ ~requested)

C14_Witness ==
    /\ tool_pc = "done"
    /\ tool_name = "foo"
    /\ DOMAIN CLOUD_FUNCTIONS = {"bar", "baz"}
    /\ tool_result.value = [error |-> <<"Unknown tool: ", "foo">>]
    /\ ~requested

\* ----------------------------------------------------------------- C15
ErrorObject(value) ==
    /\ DOMAIN value = {"error"}
    /\ value.error \in Seq(STRING)

\* C15: execute_tool never raises; a call that fails returns {error: string};
\* a response whose status is not 200 gives {error: "Cloud function returned
\* status <status>"} whatever its body; only a 200 response whose body
\* parses gives the parsed body.
C15_Original ==
    tool_pc = "done" =>
        /\ tool_result.kind = "return"
        /\ ~tool_result.parsed => ErrorObject(tool_result.value)
        /\ tool_result.parsed => status = 200
        /\ status \notin {None, 200} => tool_result = BadStatus(status)

\* ----------------------------------------------------------------- C16
\* new user input pre-empts a session whose tool call is outstanding
InterruptsTool(r) ==
    /\ turn[r] = "ToolExecuting"
    /\ turn'[r] = "AwaitingResponse"
    /\ tool_task'[r] # "done"

\* C16: in the step in which new user input interrupts a session with a tool
\* call outstanding, so before the new turn begins, the tool task is
\* cancelled, current_tool_execution is cleared and interrupted is true; in
\* no state does current_tool_execution point at a task that is not running.
C16_InterruptCancelsTool ==
    /\ [][\A r \in Refs :
             InterruptsTool(r) =>
                 /\ tool_task[r] = "running"
                 /\ tool_task'[r] = "cancelled"
                 /\ heap'[r].current_tool_execution = None
                 /\ heap'[r].interrupted]_vars
    /\ [](\A r \in Refs :
             heap[r].current_tool_execution # None =>
                 /\ tool_task[r] = "running"
                 /\ turn[r] = "ToolExecuting")

C16_Witness ==
    \E r \in Refs :
        /\ r \in Range(active_sessions)
        /\ tool_task[r] = "cancelled"
        /\ turn[r] = "AwaitingResponse"
        /\ heap[r].interrupted
        /\ heap[r].current_tool_execution = None
        /\ ~heap[r].received_model_response

\* ----------------------------------------------------------------- C17
\* C17: every cycle that takes a snapshot (a cycle that finds the live
\* session) takes it from a non-empty transcript buffer, and the chunk it
\* builds its prompt from is not empty.
C17_Original ==
    [][CycleStarts /\ genai_session =>
          /\ transcript_buffer # <<>>
          /\ NewChunk(transcript_buffer) # <<>>]_vars

\* ----------------------------------------------------------------- C18
\* C18: a fragment added while a cycle is suspended is not part of the chunk
\* of that cycle and is not removed by it: in every state transcript_buffer
\* holds exactly the fragments added since the latest snapshot; every
\* snapshot takes the whole buffer and leaves it empty, so no fragment is in
\* the chunk of two cycles.
C18_LateFragmentsKept ==
    /\ [](transcript_buffer = arrived)
    /\ [][\A p \in Callers :
             pc[p] = "gen" /\ pc'[p] = "gen" => new_chunk'[p] = new_chunk[p]]_vars
    /\ [][\A p \in Callers :
             InCycle(p) /\ pc'[p] = "done" =>
                 transcript_buffer' = transcript_buffer]_vars
    /\ [][CycleStarts /\ genai_session =>
             /\ transcript_buffer' = <<>>
             /\ \A p \in Callers :
                   Snapshots(p) => new_chunk'[p] = NewChunk(arrived)]_vars

C18_Witness ==
    \E p \in Callers :
        /\ pc[p] = "gen"
        /\ new_chunk[p] = <<"b">>
        /\ transcript_buffer = << <<"a">> >>

\* ----------------------------------------------------------------- C19
\* C19: a cycle entered while genai_session is not set leaves
\* transcript_buffer and running_summary as they are, makes no generation
\* call, sends nothing and ends in the same step with the lock free; the
\* buffered fragments are there for a later cycle.
C19_NoSessionNoEffect ==
    [][CycleStarts /\ ~genai_session =>
          /\ UNCHANGED << transcript_buffer, running_summary >>
          /\ NothingSent
          /\ \A p \in Callers : pc'[p] = "gen" => pc[p] = "gen"
          /\ last_outcome' = "no_session"
          /\ ~locked']_vars

C19_Witness ==
    \E p \in Callers :
        /\ last_outcome = "no_session"
        /\ pc[p] = "gen"
        /\ new_chunk[p] = <<"a", "\n", " ", "b">>
        /\ transcript_buffer = <<>>

\* ----------------------------------------------------------------- C20
\* C20: the step that ends a cycle, on every path, leaves the lock free; and
\* when the generation call and the send always come back, every
\* maybe_update call that began, also one queued on the lock, returns: a
\* call that returned stays returned, so it is enough that again and again
\* no call is pending.
C20_EveryCallReturns ==
    /\ [][\A p \in Callers :
             (InCycle(p) \/ CycleStarts) /\ pc'[p] = "done" /\ pc[p] # "done"
                => ~locked']_vars
    /\ []<>(\A p \in Callers : pc[p] \in {"idle", "done"})

C20_Witness ==
    /\ \A p \in Callers : pc[p] = "done"
    /\ cycles = 3
    /\ last_outcome = "send_failed"
    /\ waiters = <<>>
    /\ ~locked

====
